---- MODULE Spec2Model ----
(***************************************************************************)
(* Model of the query orchestration pipeline of MY-OWN-AI-AGENT:           *)
(*   src/backend/app.py  content assembly, search, the two generation      *)
(*                       modes and the /ws/chat websocket endpoint         *)
(*   src/api/chat.py     the non-streaming HTTP endpoints                  *)
(* Python strings that the code inspects (query, data URL, mime, OCR text) *)
(* are sequences of one-character strings; strings that are only built     *)
(* and passed on (messages, responses) are TLA+ strings.                   *)
(***************************************************************************)
EXTENDS Integers, Sequences, FiniteSets, TLC

(* ------------------------------ bounds -------------------------------- *)
\* queries one connection serves before the model stops reading
MaxQueries == 2
\* chunks the generation backend produces in one stream
MaxChunks == 2

(* --------------------------- program constants ------------------------ *)
\* ocr_text[:8000]
OcrLimit == 8000
\* perform_search(query, max_results=3)
MaxResults == 3

(* ------------------------------ strings ------------------------------- *)
UpperAZ == <<"A","B","C","D","E","F","G","H","I","J","K","L","M",
             "N","O","P","Q","R","S","T","U","V","W","X","Y","Z">>
LowerAZ == <<"a","b","c","d","e","f","g","h","i","j","k","l","m",
             "n","o","p","q","r","s","t","u","v","w","x","y","z">>
Digits == <<"0","1","2","3","4","5","6","7","8","9">>
Whitespace == {" ", "\t", "\n", "\r"}

Range(s) == {s[i] : i \in 1..Len(s)}

\* str.lower() on one character
LowerChar(c) ==
  IF \E i \in 1..26 : UpperAZ[i] = c
    THEN LowerAZ[CHOOSE i \in 1..26 : UpperAZ[i] = c]
    ELSE c

\* str.lower()
Lower(s) == [i \in 1..Len(s) |-> LowerChar(s[i])]

\* str.startswith(p)
StartsWith(s, p) == Len(s) >= Len(p) /\ SubSeq(s, 1, Len(p)) = p

\* p in s
Contains(s, p) ==
  \E i \in 1..(Len(s) - Len(p) + 1) : SubSeq(s, i, i + Len(p) - 1) = p

\* s.split(",", 1)[1] for a string that holds a comma
AfterFirstComma(s) ==
  LET i == CHOOSE k \in 1..Len(s) :
             s[k] = "," /\ \A j \in 1..(k - 1) : s[j] # ","
  IN  SubSeq(s, i + 1, Len(s))

\* s[:n] keeping one character too many
Take_OneMore(s, n) == SubSeq(s, 1, IF Len(s) < n + 1 THEN Len(s) ELSE n + 1)

\* s[:n]
Take(s, n) == SubSeq(s, 1, IF Len(s) < n THEN Len(s) ELSE n)

RECURSIVE LStrip(_)
LStrip(s) ==
  IF s # <<>> /\ Head(s) \in Whitespace THEN LStrip(Tail(s)) ELSE s

RECURSIVE RStrip(_)
RStrip(s) ==
  IF s # <<>> /\ s[Len(s)] \in Whitespace
    THEN RStrip(SubSeq(s, 1, Len(s) - 1))
    ELSE s

\* str.strip()
Strip(s) == RStrip(LStrip(s))

(* --------------------------- JSON values ------------------------------ *)
\* a scalar JSON value, or "absent" for a key the object does not hold
SV(t, s) == [t |-> t, s |-> s]
SAbsent == SV("absent", <<>>)
SNull == SV("null", <<>>)
SStr(s) == SV("str", s)
SNum(s) == SV("num", s)

\* the value under "attachment": an object {data, mime} or anything else
AV(t, s, data, mime) == [t |-> t, s |-> s, data |-> data, mime |-> mime]
AAbsent == AV("absent", <<>>, SAbsent, SAbsent)
AObj(data, mime) == AV("obj", <<>>, data, mime)
AStr(s) == AV("str", s, SAbsent, SAbsent)
AList(s) == AV("list", s, SAbsent, SAbsent)

\* Python truth value of a scalar
Truthy(v) ==
  CASE v.t = "str" -> v.s # <<>>
    [] v.t = "num" -> v.s # <<"0">>
    [] OTHER -> FALSE

\* Python truth value of the attachment value
AttTruthy(a) ==
  CASE a.t = "obj" -> a.data.t # "absent" \/ a.mime.t # "absent"
    [] a.t \in {"str", "list"} -> a.s # <<>>
    [] a.t = "num" -> a.s # <<"0">>
    [] OTHER -> FALSE

PyTypeName(t) ==
  CASE t = "str" -> "str"
    [] t = "num" -> "int"
    [] t = "list" -> "list"
    [] t = "obj" -> "dict"
    [] OTHER -> "NoneType"

NoAttribute(t, attr) ==
  "'" \o PyTypeName(t) \o "' object has no attribute '" \o attr \o "'"

(* ------------------------------ base64 -------------------------------- *)
B64Alphabet == Range(UpperAZ) \cup Range(LowerAZ) \cup Range(Digits) \cup {"+", "/"}

\* binascii.a2b_base64 (not strict): characters outside the alphabet are
\* skipped, a complete padding ends the input, a dangling quad is an error.
\* A decoded byte is named by the two characters it is cut from.
RECURSIVE A2bBase64(_, _, _, _, _, _)
A2bBase64(s, i, quad, pads, left, out) ==
  IF i > Len(s)
    THEN [ok |-> quad = 0, data |-> IF quad = 0 THEN out ELSE <<>>]
    ELSE
      LET c == s[i] IN
      IF c = "="
        THEN IF quad >= 2 /\ quad + pads + 1 >= 4
               THEN [ok |-> TRUE, data |-> out]
               ELSE A2bBase64(s, i + 1, quad,
                              IF quad >= 2 THEN pads + 1 ELSE pads, left, out)
        ELSE IF c \notin B64Alphabet
               THEN A2bBase64(s, i + 1, quad, pads, left, out)
               ELSE IF quad = 0
                      THEN A2bBase64(s, i + 1, 1, 0, c, out)
                      ELSE A2bBase64(s, i + 1, (quad + 1) % 4, 0, c,
                                     Append(out, left \o c))

\* base64.b64decode(b64)
b64decode(b64) == A2bBase64(b64, 1, 0, 0, "", <<>>)

(* -------------------------- string literals --------------------------- *)
DataPrefix == <<"d","a","t","a",":">>
Base64Marker == <<";","b","a","s","e","6","4",",">>
ImagePrefix == <<"i","m","a","g","e","/">>
MimeImageAny == ImagePrefix \o <<"*">>
MimePng == ImagePrefix \o <<"p","n","g">>
MimePdf == <<"a","p","p","l","i","c","a","t","i","o","n","/","p","d","f">>

SearchKeywords ==
  { <<"w","h","a","t"," ","i","s">>, <<"l","a","t","e","s","t">>,
    <<"n","e","w","s">>, <<"f","i","n","d">>, <<"s","e","a","r","c","h">> }

\* the fixed instruction text of lines 128-132 (code-fence marks left out)
SystemInstruction ==
  "You are a helpful coding assistant. Always respond in Markdown.\n"
    \o "- When including code, use fenced code blocks with the correct language tag (e.g., python, html).\n"
    \o "- For multi-line code, never inline it; use fenced blocks only.\n"
    \o "- Keep prose concise; if code is primary, start with a short title then the code block.\n"
    \o "- Do not wrap code in a single paragraph.\n\n"

OcrPrefixText ==
  "\n\nThe following is text OCR'ed from the attachment (may be imperfect):\n"
ConsiderText == "Consider the attached file when answering."
SearchIntro == "\n\nSearch results:\n"
CiteInstruction ==
  "\n\nProvide the answer now and include citations as [source: url] where relevant."

SearchNotConfigured == "Search unavailable: Google CSE is not configured."
SearchFailed == "Search unavailable due to an error."
NoResults == "No results found."

EmptyResponseText == "Sorry, I couldn't generate a response. Please try again."
EmptyChunkText == "Sorry, I couldn't generate a response chunk. Please try again."
EndMarker == "[END]"

(* ------------------------------ search -------------------------------- *)
\* one item of the provider's answer; a missing title is rendered "Untitled",
\* a missing snippet or link as the empty string
Item(hasTitle, title, snippet, link) ==
  [hasTitle |-> hasTitle, title |-> title, snippet |-> snippet, link |-> link]

FormatResult(idx, item) ==
  "**Result " \o Digits[idx + 1] \o "**:\n- **Title**: "
    \o (IF item.hasTitle THEN item.title ELSE "Untitled")
    \o "\n- **Snippet**: " \o item.snippet
    \o "\n- **Source**: [" \o item.link \o "](" \o item.link \o ")\n"

RECURSIVE JoinLines(_)
JoinLines(blocks) ==
  IF Len(blocks) = 1 THEN blocks[1]
  ELSE blocks[1] \o "\n" \o JoinLines(Tail(blocks))

\* env: is the CSE configured, does the call raise, which items it returns
perform_search(query, env) ==
  IF ~env.configured THEN SearchNotConfigured
  ELSE IF env.raises THEN SearchFailed
  ELSE LET items == env.items
           formatted == [i \in 1..Len(items) |-> FormatResult(i, items[i])]
       IN  IF formatted # <<>> THEN JoinLines(formatted) ELSE NoResults

(* ------------------------------- OCR ---------------------------------- *)
None == [some |-> FALSE, text |-> <<>>]
Some(text) == [some |-> TRUE, text |-> text]

\* env: are pytesseract/PIL and pymupdf importable, does the extraction
\* raise, and which text it reads (for a PDF: the page texts already joined)
_try_ocr_bytes(data, mime, env) ==
  IF ~env.tesseract THEN None
  \* mime.startswith on a value that is no string raises: caught, None
  ELSE IF mime.t # "str" THEN None
  ELSE IF StartsWith(mime.s, ImagePrefix)
    THEN IF env.raises THEN None ELSE Some(Strip(env.text))
  ELSE IF mime.s = MimePdf /\ env.pymupdf
    THEN IF env.raises THEN None ELSE Some(Strip(env.text))
  ELSE None

(* -------------------------- content assembly -------------------------- *)
Part(kind, body, mime) == [kind |-> kind, body |-> body, mime |-> mime]
SystemPart == Part("system", <<SystemInstruction>>, SAbsent)
QueryPart(query) == Part("query", <<"User query: ">> \o query, SAbsent)
InlinePart(mime, raw) == Part("inline", raw, mime)
OcrPrefixPart == Part("ocr_prefix", <<OcrPrefixText>>, SAbsent)
OcrTextPart(text) == Part("ocr_text", text, SAbsent)
ConsiderPart == Part("consider", <<ConsiderText>>, SAbsent)
SearchPart(results) ==
  Part("search", <<SearchIntro \o results \o CiteInstruction>>, SAbsent)

Built(parts) == [ok |-> TRUE, exc |-> "", parts |-> parts]
Raised(exc) == [ok |-> FALSE, exc |-> exc, parts |-> <<>>]

\* AttachmentParts with the closing instruction appended only with OCR text
AttachmentParts_ConsiderWithOcr(attachment, raw, env) ==
  LET ocr_text == _try_ocr_bytes(raw, attachment.mime, env) IN
  <<InlinePart(attachment.mime, raw)>>
    \o (IF ocr_text.some /\ ocr_text.text # <<>>
          THEN <<OcrPrefixPart, OcrTextPart(Take(ocr_text.text, OcrLimit)),
                 ConsiderPart>>
          ELSE <<>>)

\* the parts the data-URL branch appends (lines 141-155)
AttachmentParts(attachment, raw, env) ==
  LET ocr_text == _try_ocr_bytes(raw, attachment.mime, env) IN
  <<InlinePart(attachment.mime, raw)>>
    \o (IF ocr_text.some /\ ocr_text.text # <<>>
          THEN <<OcrPrefixPart, OcrTextPart(Take(ocr_text.text, OcrLimit))>>
          ELSE <<>>)
    \o <<ConsiderPart>>

\* _build_content_parts with the query appended before the instruction
_build_content_parts_QueryFirst(query, attachment, env) ==
  LET base == <<QueryPart(query), SystemPart>> IN
  IF ~AttTruthy(attachment) THEN Built(base)
  ELSE IF attachment.t # "obj" THEN Raised(NoAttribute(attachment.t, "get"))
  ELSE IF ~(Truthy(attachment.data) /\ Truthy(attachment.mime))
    THEN Built(base)
  ELSE IF attachment.data.t # "str" THEN Built(base)
  ELSE LET data_url == attachment.data.s IN
    IF StartsWith(data_url, DataPrefix) /\ Contains(data_url, Base64Marker)
      THEN LET decoded == b64decode(AfterFirstComma(data_url)) IN
           IF decoded.ok
             THEN Built(base \o AttachmentParts(attachment, decoded.data, env))
             ELSE Built(base)
      ELSE Built(base)

_build_content_parts(query, attachment, env) ==
  LET base == <<SystemPart, QueryPart(query)>> IN
  IF ~AttTruthy(attachment) THEN Built(base)
  ELSE IF attachment.t # "obj"
    \* attachment.get(...) on a value that is no dict, outside the try
    THEN Raised(NoAttribute(attachment.t, "get"))
  ELSE IF ~(Truthy(attachment.data) /\ Truthy(attachment.mime))
    THEN Built(base)
  ELSE IF attachment.data.t # "str"
    \* data_url.startswith raises inside the try: logged, parts kept
    THEN Built(base)
  ELSE LET data_url == attachment.data.s IN
    IF StartsWith(data_url, DataPrefix) /\ Contains(data_url, Base64Marker)
      THEN LET decoded == b64decode(AfterFirstComma(data_url)) IN
           IF decoded.ok
             THEN Built(base \o AttachmentParts(attachment, decoded.data, env))
             ELSE Built(base)
      ELSE Built(base)

\* needs_search comparing the query as typed, without lower-casing it
needs_search_CaseSensitive(query) ==
  \E keyword \in SearchKeywords : Contains(query, keyword)

(* --------------------------- intent classifier ------------------------ *)
\* any(keyword in query.lower() for keyword in search_keywords)
needs_search(query) == \E keyword \in SearchKeywords : Contains(Lower(query), keyword)

(* ---------------------- generation, streaming mode --------------------- *)
\* StreamingContent with the exception of the search call let through
StreamingContent_SearchRaises(query, attachment, ocr, search) ==
  LET built == _build_content_parts(query, attachment, ocr) IN
  IF ~built.ok THEN built
  ELSE IF needs_search(query)
    THEN IF search.configured /\ search.raises
           THEN Raised(SearchFailed)
           ELSE Built(Append(built.parts, SearchPart(perform_search(query, search))))
    ELSE built

\* lines 212-218 of process_query_streaming: the content sent to the backend
StreamingContent(query, attachment, ocr, search) ==
  LET built == _build_content_parts(query, attachment, ocr) IN
  IF ~built.ok THEN built
  ELSE IF needs_search(query)
    THEN Built(Append(built.parts, SearchPart(perform_search(query, search))))
    ELSE built

\* the stages the first step of process_query_streaming has entered
StagesInvoked(query, attachment, ocr) ==
  IF query.t # "str" THEN {"classifier"}
  ELSE IF ~_build_content_parts(query.s, attachment, ocr).ok
    THEN {"classifier", "assembly"}
  ELSE {"classifier", "assembly", "generation"}
         \cup (IF needs_search(query.s) THEN {"search"} ELSE {})

\* a chunk of the backend's stream: it may carry no text attribute, or an
\* empty text
Chunk(has, text) == [has |-> has, text |-> text]
Chunks == {Chunk(TRUE, "Hel"), Chunk(TRUE, "lo"), Chunk(TRUE, ""), Chunk(FALSE, "")}

\* FragmentOf without the test for a missing or empty text
FragmentOf_Raw(chunk) == chunk.text

\* lines 224-228: the fragment yielded for one chunk
FragmentOf(chunk) ==
  IF chunk.has /\ chunk.text # "" THEN chunk.text ELSE EmptyChunkText

\* str(e) of the exceptions the generation backend raises
BackendErrors == {"503 backend unavailable", ""}

(* -------------------- generation, non-streaming mode ------------------ *)
\* lines 191-192: the non-streaming copy of the keyword list and of the test
search_keywords_non_streaming ==
  { <<"w","h","a","t"," ","i","s">>, <<"l","a","t","e","s","t">>,
    <<"n","e","w","s">>, <<"f","i","n","d">>, <<"s","e","a","r","c","h">> }
needs_search_non_streaming(query) ==
  \E keyword \in search_keywords_non_streaming : Contains(Lower(query), keyword)

\* what generate_content does: a response with text, a response whose text
\* is empty or None, or an exception
Outcome(kind, text) == [kind |-> kind, text |-> text]
NsOutcomes ==
  {Outcome("text", "Hello"), Outcome("text", ""), Outcome("none", "")}
    \cup {Outcome("raise", e) : e \in BackendErrors}

Returned(text, parts) == [raised |-> FALSE, text |-> text, parts |-> parts]
Escaped(exc) == [raised |-> TRUE, text |-> exc, parts |-> <<>>]

\* process_query_non_streaming with the empty-text check left out
process_query_non_streaming_NoEmptyCheck(query, attachment, ocr, search, outcome) ==
  LET built == _build_content_parts(query, attachment, ocr) IN
  IF ~built.ok THEN Escaped(built.exc)
  ELSE
    LET base_parts ==
          IF needs_search_non_streaming(query)
            THEN Append(built.parts, SearchPart(perform_search(query, search)))
            ELSE built.parts
    IN  IF outcome.kind = "raise"
          THEN Returned("Error processing query: " \o outcome.text, base_parts)
          ELSE Returned(outcome.text, base_parts)

process_query_non_streaming(query, attachment, ocr, search, outcome) ==
  LET built == _build_content_parts(query, attachment, ocr) IN
  IF ~built.ok THEN Escaped(built.exc)
  ELSE
    LET base_parts ==
          IF needs_search_non_streaming(query)
            THEN Append(built.parts, SearchPart(perform_search(query, search)))
            ELSE built.parts
    IN  IF outcome.kind = "raise"
          THEN Returned("Error processing query: " \o outcome.text, base_parts)
        ELSE IF outcome.kind = "none" \/ outcome.text = ""
          THEN Returned(EmptyResponseText, base_parts)
        ELSE Returned(outcome.text, base_parts)

(* ------------------------- websocket messages ------------------------- *)
\* one text message of the client: plain text, a JSON object with the keys
\* prompt, image and attachment, or some other JSON value
Msg(kind, text, prompt, image, attachment) ==
  [kind |-> kind, text |-> text, prompt |-> prompt, image |-> image,
   attachment |-> attachment]
TextMsg(text) == Msg("text", text, SAbsent, SAbsent, AAbsent)
ObjMsg(prompt, image, attachment) ==
  Msg("object", <<"{", "}">>, prompt, image, attachment)

Q_hi == <<"h","i">>
Q_find == <<"F","i","n","d"," ","i","t">>
Q_find_lower == <<"f","i","n","d"," ","i","t">>
Q_whatis == <<"w","h","a","t","i","s">>
ValidDataUrl == DataPrefix \o MimePng \o Base64Marker \o <<"Q","U","I","=">>
BadPaddingUrl == DataPrefix \o MimePng \o Base64Marker \o <<"Q">>
NotDataUrl == <<"a","b","c">>

WsMessages ==
  { TextMsg(Q_hi),
    TextMsg(<<>>),
    Msg("scalar", <<"5">>, SAbsent, SAbsent, AAbsent),
    ObjMsg(SAbsent, SAbsent, AAbsent),
    ObjMsg(SStr(<<>>), SAbsent, AAbsent),
    ObjMsg(SNull, SAbsent, AAbsent),
    ObjMsg(SStr(Q_find), SAbsent, AAbsent),
    ObjMsg(SStr(Q_hi), SAbsent, AObj(SStr(ValidDataUrl), SStr(MimePng))),
    ObjMsg(SStr(Q_find), SAbsent, AObj(SStr(ValidDataUrl), SStr(MimePdf))),
    ObjMsg(SStr(Q_hi), SAbsent, AObj(SStr(NotDataUrl), SStr(MimePng))),
    ObjMsg(SStr(Q_hi), SAbsent, AObj(SStr(BadPaddingUrl), SStr(MimePng))),
    ObjMsg(SStr(Q_hi), SAbsent, AObj(SStr(ValidDataUrl), SAbsent)),
    ObjMsg(SStr(Q_hi), SAbsent, AObj(SNum(<<"5">>), SStr(MimePng))),
    ObjMsg(SStr(Q_hi), SAbsent, AStr(NotDataUrl)),
    ObjMsg(SStr(Q_hi), SAbsent, AList(<<"x">>)),
    ObjMsg(SStr(Q_hi), SStr(ValidDataUrl), AAbsent),
    ObjMsg(SStr(Q_hi), SStr(NotDataUrl), AObj(SStr(ValidDataUrl), SStr(MimePdf))),
    ObjMsg(SStr(Q_hi), SStr(ValidDataUrl), AObj(SAbsent, SAbsent)),
    ObjMsg(SStr(Q_find), SAbsent, AStr(NotDataUrl)),
    TextMsg(Q_find_lower),
    TextMsg(Q_whatis) }

OcrEnv(tesseract, pymupdf, raises, text) ==
  [tesseract |-> tesseract, pymupdf |-> pymupdf, raises |-> raises, text |-> text]
OcrEnvs ==
  { OcrEnv(FALSE, FALSE, FALSE, <<>>),
    OcrEnv(TRUE, TRUE, FALSE, <<" ","o","c","r","\n">>),
    OcrEnv(TRUE, TRUE, FALSE, <<" ","\n">>),
    OcrEnv(TRUE, TRUE, TRUE, <<>>) }

SearchEnv(configured, raises, items) ==
  [configured |-> configured, raises |-> raises, items |-> items]
\* the request asks the provider for num=max_results items
SearchEnvs ==
  { e \in { SearchEnv(FALSE, FALSE, <<>>),
            SearchEnv(TRUE, TRUE, <<>>),
            SearchEnv(TRUE, FALSE, <<>>),
            SearchEnv(TRUE, FALSE, <<Item(TRUE, "Q", "S", "http://x"),
                                     Item(FALSE, "", "T", "http://y")>>) } :
      Len(e.items) <= MaxResults }

\* what one request asked of an augmentation stage: whether the stage was
\* called, and what its environment did in that call
Call(env) == [called |-> TRUE, env |-> env]
NoOcrCall == [called |-> FALSE, env |-> OcrEnv(FALSE, FALSE, FALSE, <<>>)]
NoSearchCall == [called |-> FALSE, env |-> SearchEnv(FALSE, FALSE, <<>>)]

\* line 151 follows the append of the inline part (lines 144-149)
OcrReached(built) == \E i \in 1..Len(built) : built[i].kind = "inline"

\* texts around the length at which the OCR text is cut: the character at
\* the limit and the ones after it differ from the ones before
LongText(n) ==
  [i \in 1..n |-> IF i < OcrLimit THEN "x" ELSE IF i = OcrLimit THEN "y" ELSE "z"]
LongOcrEnvs ==
  { OcrEnv(TRUE, TRUE, FALSE, LongText(OcrLimit - 1)),
    OcrEnv(TRUE, TRUE, FALSE, LongText(OcrLimit)),
    OcrEnv(TRUE, TRUE, FALSE, LongText(OcrLimit + 1)),
    OcrEnv(TRUE, TRUE, FALSE, <<" ">> \o LongText(OcrLimit + 2) \o <<"\n">>) }

\* lines 241-254: the query and the attachment taken from a message
ParseMessage(raw) ==
  LET isObj == raw.kind = "object"
      q == IF isObj /\ raw.prompt.t # "absent" THEN raw.prompt ELSE SStr(raw.text)
      image_data_url == IF isObj THEN raw.image ELSE SAbsent
      att == IF isObj THEN raw.attachment ELSE AAbsent
  IN  [query |-> q,
       attachment |-> IF Truthy(image_data_url) /\ ~AttTruthy(att)
                        THEN AObj(image_data_url, SStr(MimeImageAny))
                        ELSE att]

(* ------------------------- the websocket endpoint --------------------- *)
VARIABLES
  pc,            \* where websocket_endpoint stands
  conn,          \* "open", "clientClosed" or "serverClosed"
  served,        \* query messages received on the connection
  query,         \* the handler's query
  attachment,    \* the handler's attachment
  parts,         \* content given to the generation backend for this query
  invoked,       \* pipeline stages entered for this query
  gen,           \* the generator: "none", "running", "errored", "exhausted"
  chunksOut,     \* chunks the backend has produced in this stream
  backendFailed, \* the backend raised in this stream
  produced,      \* fragments the generator has yielded for this query
  pending,       \* the fragment yielded and not yet sent
  sent,          \* messages sent to the client since the query was received
  genRequests,   \* times the generator was asked for a fragment, this query
  wsErr,         \* str(e) of the exception the handler caught
  failedAt,      \* the step that raised into the handler's except clause
  closeCalled,   \* websocket.close() was reached
  closedAt,      \* where the handler stood when the client closed
  reqAtClose,    \* genRequests when the client closed
  ocrCall,       \* the call of _try_ocr_bytes made for this query, if any
  searchCall,    \* the call of perform_search made for this query, if any
  chunksSeen,    \* the chunks the backend has produced in this stream
  endsSent,      \* "[END]" messages sent on the connection
  raw            \* the message received last

wsVars == <<pc, conn, served, query, attachment, parts, invoked, gen, chunksOut,
            backendFailed, produced, pending, sent, genRequests, wsErr,
            failedAt, closeCalled, closedAt, reqAtClose, ocrCall, searchCall,
            chunksSeen, endsSent, raw>>

(* ----------------------- the non-streaming endpoints ----------------- *)
VARIABLES
  httpReq,       \* the HTTP request handled; requests share no state, so a
                 \* behaviour handles one
  httpResp,      \* its response: status, response text, error detail
  nsCalled,      \* process_query_non_streaming was called for it
  nsOutcome,     \* what the generation backend did in that call
  nsParts,       \* content given to the generation backend in that call
  nsQuery,       \* the query argument of that call
  nsAttachment,  \* the attachment argument of that call
  nsOcrCall,     \* the call of _try_ocr_bytes made in that call, if any
  nsSearchCall   \* the call of perform_search made in that call, if any

httpVars == <<httpReq, httpResp, nsCalled, nsOutcome, nsParts, nsQuery,
              nsAttachment, nsOcrCall, nsSearchCall>>

(* --------------------- accounts and chat storage --------------------- *)
VARIABLES
  dbConfigured,  \* MONGO_URL is set: users_col and chats_col are not None
  users,         \* the documents of the users collection
  chatDocs,      \* the documents of the chats collection
  nextId,        \* the next ObjectId the database hands out
  nextToken,     \* the next value of secrets.token_urlsafe
  now,           \* int(time.time())
  calls,         \* the requests of the behaviour: handler, position, locals
  jwtIssued,     \* the JWTs handed out so far
  history        \* what has happened: tokens issued, passwords changed,
                 \* accounts deleted, saves committed

authVars == <<dbConfigured, users, chatDocs, nextId, nextToken, now,
              calls, jwtIssued, history>>

WsInit ==
  /\ pc = "receive"
  /\ conn = "open"
  /\ served = 0
  /\ query = SAbsent
  /\ attachment = AAbsent
  /\ parts = <<>>
  /\ invoked = {}
  /\ gen = "none"
  /\ chunksOut = 0
  /\ backendFailed = FALSE
  /\ produced = <<>>
  /\ pending = ""
  /\ sent = <<>>
  /\ genRequests = 0
  /\ wsErr = ""
  /\ failedAt = "none"
  /\ closeCalled = FALSE
  /\ closedAt = "none"
  /\ reqAtClose = 0
  /\ ocrCall = NoOcrCall
  /\ searchCall = NoSearchCall
  /\ chunksSeen = <<>>
  /\ endsSent = 0
  /\ raw = TextMsg(<<>>)

\* an exception reaches the except clause of websocket_endpoint (line 259)
Caught(at, desc) ==
  /\ pc' = "except"
  /\ failedAt' = at
  /\ wsErr' = desc

\* line 239, a message arrives
WsReceive ==
  /\ UNCHANGED <<httpVars, authVars>>
  /\ pc = "receive" /\ conn = "open" /\ served < MaxQueries
  /\ \E msg \in WsMessages :
       LET m == ParseMessage(msg) IN
       /\ raw' = msg
       /\ query' = m.query
       /\ attachment' = m.attachment
  /\ served' = served + 1
  /\ pc' = "gen_start"
  /\ parts' = <<>> /\ invoked' = {} /\ gen' = "none" /\ chunksOut' = 0
  /\ backendFailed' = FALSE /\ produced' = <<>> /\ pending' = ""
  /\ sent' = <<>> /\ genRequests' = 0
  /\ ocrCall' = NoOcrCall /\ searchCall' = NoSearchCall /\ chunksSeen' = <<>>
  /\ UNCHANGED <<conn, wsErr, failedAt, closeCalled, closedAt, reqAtClose,
                 endsSent>>

\* line 239, receive_text raises WebSocketDisconnect
WsReceiveClosed ==
  /\ UNCHANGED <<httpVars, authVars>>
  /\ UNCHANGED <<ocrCall, searchCall, chunksSeen, endsSent, raw>>
  /\ pc = "receive" /\ conn = "clientClosed"
  /\ Caught("receive", "")
  /\ UNCHANGED <<conn, served, query, attachment, parts, invoked, gen,
                 chunksOut, backendFailed, produced, pending, sent,
                 genRequests, closeCalled, closedAt, reqAtClose>>

\* StreamBody with the backend's exception swallowed: the generator ends
\* without yielding the error fragment
StreamBody_SwallowError ==
  \/ /\ gen' = "exhausted"
     /\ backendFailed' = TRUE
     /\ pc' = "send_end"
     /\ UNCHANGED <<pending, produced, chunksOut, chunksSeen>>
  \/ /\ chunksOut < MaxChunks
     /\ \E chunk \in Chunks :
          /\ pending' = FragmentOf(chunk)
          /\ produced' = Append(produced, FragmentOf(chunk))
          /\ chunksSeen' = Append(chunksSeen, chunk)
     /\ gen' = "running"
     /\ chunksOut' = chunksOut + 1
     /\ pc' = "send"
     /\ UNCHANGED backendFailed
  \/ /\ gen' = "exhausted"
     /\ pc' = "send_end"
     /\ UNCHANGED <<backendFailed, pending, produced, chunksOut, chunksSeen>>

\* lines 220-231: the generator runs to its next yield or to its end
StreamBody ==
  \/ \E e \in BackendErrors :
       /\ gen' = "errored"
       /\ backendFailed' = TRUE
       /\ pending' = "Error: " \o e
       /\ produced' = Append(produced, "Error: " \o e)
       /\ chunksOut' = chunksOut
       /\ chunksSeen' = chunksSeen
       /\ pc' = "send"
  \/ /\ chunksOut < MaxChunks
     /\ \E chunk \in Chunks :
          /\ pending' = FragmentOf(chunk)
          /\ produced' = Append(produced, FragmentOf(chunk))
          /\ chunksSeen' = Append(chunksSeen, chunk)
     /\ gen' = "running"
     /\ chunksOut' = chunksOut + 1
     /\ pc' = "send"
     /\ UNCHANGED backendFailed
  \/ /\ gen' = "exhausted"
     /\ pc' = "send_end"
     /\ UNCHANGED <<backendFailed, pending, produced, chunksOut, chunksSeen>>

\* line 256, first request: process_query_streaming runs lines 212-222
GenStart ==
  /\ UNCHANGED <<httpVars, authVars>>
  /\ pc = "gen_start"
  /\ genRequests' = genRequests + 1
  /\ \E ocr \in OcrEnvs, search \in SearchEnvs :
       /\ invoked' = StagesInvoked(query, attachment, ocr)
       /\ IF query.t # "str"
            THEN /\ Caught("stream", NoAttribute(query.t, "lower"))
                 /\ UNCHANGED <<parts, gen, chunksOut, backendFailed, produced,
                                pending, ocrCall, searchCall, chunksSeen>>
            ELSE LET built == _build_content_parts(query.s, attachment, ocr)
                     content == StreamingContent(query.s, attachment, ocr, search)
                 IN
                 /\ ocrCall' = IF OcrReached(built.parts)
                                 THEN Call(ocr) ELSE NoOcrCall
                 /\ searchCall' = IF built.ok /\ needs_search(query.s)
                                    THEN Call(search) ELSE NoSearchCall
                 /\ IF ~content.ok
                      THEN /\ Caught("stream", content.exc)
                           /\ UNCHANGED <<parts, gen, chunksOut, backendFailed,
                                          produced, pending, chunksSeen>>
                      ELSE /\ parts' = content.parts
                           /\ StreamBody
                           /\ UNCHANGED <<wsErr, failedAt>>
  /\ UNCHANGED <<conn, served, query, attachment, sent, closeCalled, closedAt,
                 reqAtClose, endsSent, raw>>

\* GenNext asking for the next fragment while the last one is still unsent
GenNext_Prefetch ==
  /\ UNCHANGED <<httpVars, authVars>>
  /\ pc \in {"gen_next", "send"}
  /\ genRequests' = genRequests + 1
  /\ IF gen = "running"
       THEN StreamBody
       ELSE /\ gen' = "exhausted"
            /\ pc' = "send_end"
            /\ UNCHANGED <<backendFailed, pending, produced, chunksOut, chunksSeen>>
  /\ UNCHANGED <<conn, served, query, attachment, parts, invoked, sent, wsErr,
                 failedAt, closeCalled, closedAt, reqAtClose, ocrCall,
                 searchCall, endsSent, raw>>

\* line 256, a later request
GenNext ==
  /\ UNCHANGED <<httpVars, authVars>>
  /\ pc = "gen_next"
  /\ genRequests' = genRequests + 1
  /\ IF gen = "running"
       THEN StreamBody
       ELSE /\ gen' = "exhausted"
            /\ pc' = "send_end"
            /\ UNCHANGED <<backendFailed, pending, produced, chunksOut,
                           chunksSeen>>
  /\ UNCHANGED <<conn, served, query, attachment, parts, invoked, sent, wsErr,
                 failedAt, closeCalled, closedAt, reqAtClose, ocrCall,
                 searchCall, endsSent, raw>>

\* WsSend putting the fragment in front of the ones already sent
WsSend_Reordered ==
  /\ UNCHANGED <<httpVars, authVars>>
  /\ UNCHANGED <<ocrCall, searchCall, chunksSeen, endsSent, raw>>
  /\ pc = "send"
  /\ IF conn = "open"
       THEN /\ sent' = <<pending>> \o sent
            /\ pc' = "gen_next"
            /\ UNCHANGED <<wsErr, failedAt>>
       ELSE /\ Caught("send", "")
            /\ UNCHANGED sent
  /\ UNCHANGED <<conn, served, query, attachment, parts, invoked, gen,
                 chunksOut, backendFailed, produced, pending, genRequests,
                 closeCalled, closedAt, reqAtClose>>

\* WsSend with a failed send ignored: the loop goes on
WsSend_IgnoreClosed ==
  /\ UNCHANGED <<httpVars, authVars>>
  /\ UNCHANGED <<ocrCall, searchCall, chunksSeen, endsSent, raw>>
  /\ pc = "send"
  /\ sent' = IF conn = "open" THEN Append(sent, pending) ELSE sent
  /\ pc' = "gen_next"
  /\ UNCHANGED <<conn, served, query, attachment, parts, invoked, gen,
                 chunksOut, backendFailed, produced, pending, genRequests,
                 wsErr, failedAt, closeCalled, closedAt, reqAtClose>>

\* line 257, send_text(chunk); it raises once the client has closed
WsSend ==
  /\ UNCHANGED <<httpVars, authVars>>
  /\ UNCHANGED <<ocrCall, searchCall, chunksSeen, endsSent, raw>>
  /\ pc = "send"
  /\ IF conn = "open"
       THEN /\ sent' = Append(sent, pending)
            /\ pc' = "gen_next"
            /\ UNCHANGED <<wsErr, failedAt>>
       ELSE /\ Caught("send", "")
            /\ UNCHANGED sent
  /\ UNCHANGED <<conn, served, query, attachment, parts, invoked, gen,
                 chunksOut, backendFailed, produced, pending, genRequests,
                 closeCalled, closedAt, reqAtClose>>

\* WsSendEnd ending the connection after a backend failure instead of
\* sending the terminator
WsSendEnd_Terminate ==
  /\ UNCHANGED <<httpVars, authVars>>
  /\ UNCHANGED <<ocrCall, searchCall, chunksSeen, raw>>
  /\ pc = "send_end"
  /\ IF conn = "open" /\ ~backendFailed
       THEN /\ sent' = Append(sent, EndMarker)
            /\ endsSent' = endsSent + 1
            /\ pc' = "receive"
       ELSE /\ pc' = "close"
            /\ UNCHANGED <<sent, endsSent>>
  /\ UNCHANGED <<conn, served, query, attachment, parts, invoked, gen,
                 chunksOut, backendFailed, produced, pending, genRequests,
                 wsErr, failedAt, closeCalled, closedAt, reqAtClose>>

\* WsSendEnd sending the terminator twice
WsSendEnd_Twice ==
  /\ UNCHANGED <<httpVars, authVars>>
  /\ UNCHANGED <<ocrCall, searchCall, chunksSeen, raw>>
  /\ pc = "send_end"
  /\ IF conn = "open"
       THEN /\ sent' = sent \o <<EndMarker, EndMarker>>
            /\ endsSent' = endsSent + 2
            /\ pc' = "receive"
            /\ UNCHANGED <<wsErr, failedAt>>
       ELSE /\ Caught("send_end", "")
            /\ UNCHANGED <<sent, endsSent>>
  /\ UNCHANGED <<conn, served, query, attachment, parts, invoked, gen,
                 chunksOut, backendFailed, produced, pending, genRequests,
                 closeCalled, closedAt, reqAtClose>>

\* line 258, send_text("[END]")
WsSendEnd ==
  /\ UNCHANGED <<httpVars, authVars>>
  /\ UNCHANGED <<ocrCall, searchCall, chunksSeen, raw>>
  /\ pc = "send_end"
  /\ IF conn = "open"
       THEN /\ sent' = Append(sent, EndMarker)
            /\ endsSent' = endsSent + 1
            /\ pc' = "receive"
            /\ UNCHANGED <<wsErr, failedAt>>
       ELSE /\ Caught("send_end", "")
            /\ UNCHANGED <<sent, endsSent>>
  /\ UNCHANGED <<conn, served, query, attachment, parts, invoked, gen,
                 chunksOut, backendFailed, produced, pending, genRequests,
                 closeCalled, closedAt, reqAtClose>>

\* WsSendError sending the terminator before the error message
WsSendError_EndFirst ==
  /\ UNCHANGED <<httpVars, authVars>>
  /\ UNCHANGED <<ocrCall, searchCall, chunksSeen, endsSent, raw>>
  /\ pc = "except"
  /\ IF conn = "open"
       THEN /\ sent' = sent \o <<EndMarker, "Error: " \o wsErr>>
            /\ pc' = "close"
       ELSE /\ pc' = "done"
            /\ UNCHANGED sent
  /\ UNCHANGED <<conn, served, query, attachment, parts, invoked, gen,
                 chunksOut, backendFailed, produced, pending, genRequests,
                 wsErr, failedAt, closeCalled, closedAt, reqAtClose>>

\* line 261, send_text(f"Error: {e}"); raising here leaves the handler
WsSendError ==
  /\ UNCHANGED <<httpVars, authVars>>
  /\ UNCHANGED <<ocrCall, searchCall, chunksSeen, endsSent, raw>>
  /\ pc = "except"
  /\ IF conn = "open"
       THEN /\ sent' = Append(sent, "Error: " \o wsErr)
            /\ pc' = "close"
       ELSE /\ pc' = "done"
            /\ UNCHANGED sent
  /\ UNCHANGED <<conn, served, query, attachment, parts, invoked, gen,
                 chunksOut, backendFailed, produced, pending, genRequests,
                 wsErr, failedAt, closeCalled, closedAt, reqAtClose>>

\* line 262, websocket.close()
WsClose ==
  /\ UNCHANGED <<httpVars, authVars>>
  /\ UNCHANGED <<ocrCall, searchCall, chunksSeen, endsSent, raw>>
  /\ pc = "close"
  /\ closeCalled' = TRUE
  /\ conn' = IF conn = "open" THEN "serverClosed" ELSE conn
  /\ pc' = "done"
  /\ UNCHANGED <<served, query, attachment, parts, invoked, gen, chunksOut,
                 backendFailed, produced, pending, sent, genRequests, wsErr,
                 failedAt, closedAt, reqAtClose>>

\* the client closes the connection
ClientClose ==
  /\ UNCHANGED <<httpVars, authVars>>
  /\ UNCHANGED <<ocrCall, searchCall, chunksSeen, endsSent, raw>>
  /\ conn = "open" /\ pc # "done"
  /\ conn' = "clientClosed"
  /\ closedAt' = pc
  /\ reqAtClose' = genRequests
  /\ UNCHANGED <<pc, served, query, attachment, parts, invoked, gen, chunksOut,
                 backendFailed, produced, pending, sent, genRequests, wsErr,
                 failedAt, closeCalled>>

(* --------------------------- api/chat.py ------------------------------ *)
Req(endpoint, q, prompt, queryField, image, att) ==
  [endpoint |-> endpoint, q |-> q, prompt |-> prompt, queryField |-> queryField,
   image |-> image, attachment |-> att]
Resp(status, response, detail) ==
  [status |-> status, response |-> response, detail |-> detail]

\* x or y
PyOr(x, y) == IF Truthy(x) THEN x ELSE y

\* values of the q parameter; FastAPI gives "" for a missing one
QParams ==
  {SAbsent, SStr(<<>>), SStr(<<" ">>), SStr(Q_hi), SStr(Q_find),
   SStr(Q_find_lower), SStr(Q_whatis)}

\* values under the keys prompt and query of a posted object
PromptValues ==
  {SAbsent, SNull, SStr(<<>>), SStr(<<" ", "\n">>), SStr(Q_hi), SStr(Q_find),
   SNum(<<"5">>), SNum(<<"0">>)}
QueryFieldValues == {SAbsent, SStr(<<>>), SStr(Q_hi)}
\* values under the key image of a posted object
PostedImages == {SAbsent, SStr(ValidDataUrl)}
PostedAttachments ==
  { AAbsent,
    AObj(SStr(ValidDataUrl), SStr(MimePng)),
    AObj(SStr(BadPaddingUrl), SStr(MimePng)),
    AStr(NotDataUrl),
    AList(<<"x">>) }

HttpInit ==
  /\ httpReq = Req("none", SAbsent, SAbsent, SAbsent, SAbsent, AAbsent)
  /\ httpResp = Resp(0, "", "")
  /\ nsCalled = FALSE
  /\ nsOutcome = Outcome("none", "")
  /\ nsParts = <<>>
  /\ nsQuery = <<>>
  /\ nsAttachment = AAbsent
  /\ nsOcrCall = NoOcrCall
  /\ nsSearchCall = NoSearchCall

\* the endpoint raises HTTPException(400) before the pipeline
Reject(detail) ==
  /\ httpResp' = Resp(400, "", detail)
  /\ nsCalled' = FALSE
  /\ nsOutcome' = Outcome("none", "")
  /\ nsParts' = <<>>
  /\ nsQuery' = <<>>
  /\ nsAttachment' = AAbsent
  /\ nsOcrCall' = NoOcrCall
  /\ nsSearchCall' = NoSearchCall

\* response = await process_query_non_streaming(...); return {"response": response}
Respond(prompt, att) ==
  \E ocr \in OcrEnvs \cup LongOcrEnvs, search \in SearchEnvs,
     outcome \in NsOutcomes :
    LET built == _build_content_parts(prompt, att, ocr)
        r == process_query_non_streaming(prompt, att, ocr, search, outcome)
    IN
    /\ nsCalled' = TRUE
    /\ nsOutcome' = outcome
    /\ nsParts' = r.parts
    /\ nsQuery' = prompt
    /\ nsAttachment' = att
    /\ nsOcrCall' = IF OcrReached(built.parts) THEN Call(ocr) ELSE NoOcrCall
    /\ nsSearchCall' = IF built.ok /\ needs_search_non_streaming(prompt)
                         THEN Call(search) ELSE NoSearchCall
    /\ httpResp' = IF r.raised THEN Resp(500, "", r.text)
                   ELSE Resp(200, r.text, "")

\* chat_post with the blank-prompt test left out
chat_post_NoStrip ==
  /\ httpReq.endpoint = "none"
  /\ \E p \in PromptValues, qf \in QueryFieldValues, image \in PostedImages,
        att \in PostedAttachments :
       LET prompt == PyOr(PyOr(p, qf), SStr(<<>>)) IN
       /\ httpReq' = Req("chat_post", SAbsent, p, qf, image, att)
       /\ IF prompt.t # "str" \/ prompt.s = <<>>
            THEN Reject("Missing prompt")
            ELSE Respond(prompt.s, IF att.t = "obj" THEN att ELSE AAbsent)
  /\ UNCHANGED <<wsVars, authVars>>

\* GET /
chat_query ==
  /\ httpReq.endpoint = "none"
  /\ \E qv \in QParams :
       LET q == IF qv.t = "absent" THEN <<>> ELSE qv.s IN
       /\ httpReq' = Req("chat_query", qv, SAbsent, SAbsent, SAbsent, AAbsent)
       /\ IF q = <<>>
            THEN Reject("Missing q")
            ELSE Respond(q, AAbsent)
  /\ UNCHANGED <<wsVars, authVars>>

\* POST /
chat_post ==
  /\ httpReq.endpoint = "none"
  /\ \E p \in PromptValues, qf \in QueryFieldValues, image \in PostedImages,
        att \in PostedAttachments :
       LET prompt == PyOr(PyOr(p, qf), SStr(<<>>)) IN
       /\ httpReq' = Req("chat_post", SAbsent, p, qf, image, att)
       /\ IF prompt.t # "str" \/ Strip(prompt.s) = <<>>
            THEN Reject("Missing prompt")
            ELSE Respond(prompt.s, IF att.t = "obj" THEN att ELSE AAbsent)
  /\ UNCHANGED <<wsVars, authVars>>

(* ------------------ backend/app.py: accounts and chats --------------- *)
\* requests made in one behaviour
MaxCalls == 2
\* 60 * 60, line 391, and JWT_TTL_SECONDS, line 67
ResetTtl == 3600
JwtTtl == 604800

\* pwd_context.hash and pwd_context.verify: the hash of a password verifies
\* that password only; a stored value that is no hash verifies nothing
NoHash == [scheme |-> "", of |-> ""]
_hash_password(password) == [scheme |-> "pbkdf2_sha256", of |-> password]
_verify_password(password, hashed) ==
  hashed.scheme = "pbkdf2_sha256" /\ hashed.of = password

\* str(doc["_id"]) and ObjectId(user_id)
IdStr(id) == [hex |-> id]
ObjectId(user_id) == user_id.hex

\* a JWT: the claims sub and exp, and whether JWT_SECRET signed it
Jwt(sub, exp, signed) == [sub |-> sub, exp |-> exp, signed |-> signed]
NoJwt == Jwt(IdStr(0), 0, FALSE)
_issue_jwt(user_id, t) == Jwt(user_id, t + JwtTtl, TRUE)
\* jwt.decode checks the signature and the expiry; None on any failure
_decode_jwt(token, t) ==
  IF token.signed /\ token.exp > t
    THEN [ok |-> TRUE, sub |-> token.sub]
    ELSE [ok |-> FALSE, sub |-> IdStr(0)]

\* the Authorization header: missing, or a scheme and a token
Header(present, scheme, token) ==
  [present |-> present, scheme |-> scheme, token |-> token]
NoHeader == Header(FALSE, "", NoJwt)
Bearer(token) == Header(TRUE, "bearer", token)
IsBearer(authorization) ==
  authorization.present /\ authorization.scheme = "bearer"

\* documents of the users collection; a document without the reset fields
\* has hasReset = FALSE
UserDoc(id, email, username, password, hasReset, resetToken, resetTokenExp) ==
  [id |-> id, email |-> email, username |-> username, password |-> password,
   hasReset |-> hasReset, resetToken |-> resetToken,
   resetTokenExp |-> resetTokenExp]
NoDoc == UserDoc(0, <<>>, <<>>, NoHash, FALSE, <<>>, 0)

\* find_one: the first matching document in insertion order, or None
First(docs) ==
  IF docs = {} THEN NoDoc
  ELSE CHOOSE d \in docs : \A e \in docs : d.id <= e.id
FindByEmail(col, email) == First({d \in col : d.email = email})
FindByResetToken(col, token) ==
  First({d \in col : d.hasReset /\ d.resetToken = token})

\* documents of the chats collection, and the entries of a posted chats list
ChatDoc(id, userId, chats) == [id |-> id, userId |-> userId, chats |-> chats]
NoChatDoc == ChatDoc(0, IdStr(0), <<>>)
FirstChatDoc(col, userId) ==
  LET m == {d \in col : d.userId = userId} IN
  IF m = {} THEN NoChatDoc ELSE CHOOSE d \in m : \A e \in m : d.id <= e.id
ChatItem(isDict, cid, msgsIsList, msgs) ==
  [isDict |-> isDict, cid |-> cid, msgsIsList |-> msgsIsList, msgs |-> msgs]
ChatsValue(isList, items) == [isList |-> isList, items |-> items]

\* lines 500-503: the chats kept by save_chats
Started(c) == c.isDict /\ c.msgsIsList /\ Len(c.msgs) > 0
filtered_chats(chats) == SelectSeq(chats, Started)

\* an upsert that appends the chats to the stored ones
UpsertChats_Merge(col, id, userId, chats) ==
  LET old == FirstChatDoc(col, userId) IN
  IF old = NoChatDoc
    THEN col \cup {ChatDoc(id, userId, chats)}
    ELSE (col \ {old}) \cup {ChatDoc(old.id, userId, old.chats \o chats)}
\* chats_col.update_one({"userId": user_id}, {"$set": doc}, upsert=True)
UpsertChats(col, id, userId, chats) ==
  LET old == FirstChatDoc(col, userId) IN
  IF old = NoChatDoc
    THEN col \cup {ChatDoc(id, userId, chats)}
    ELSE (col \ {old}) \cup {ChatDoc(old.id, userId, chats)}

\* one request: the handler, where it stands, its inputs, its locals and
\* its response
Request(op, at, email, username, password, token, authorization, chats, user, newToken, expires, mailed, status, detail, body) ==
  [op |-> op, at |-> at, email |-> email, username |-> username,
   password |-> password, token |-> token, authorization |-> authorization,
   chats |-> chats, user |-> user, newToken |-> newToken,
   expires |-> expires, mailed |-> mailed, status |-> status,
   detail |-> detail, body |-> body]
Body(ok, token, chats) == [ok |-> ok, token |-> token, chats |-> chats]
NoBody == Body(FALSE, NoJwt, <<>>)
NoRequest ==
  Request("none", "idle", SAbsent, SAbsent, SAbsent, SAbsent, NoHeader,
          ChatsValue(FALSE, <<>>), NoDoc, <<>>, 0, FALSE, 0, "", NoBody)

\* (payload.get(key) or "").strip().lower(); a value that is true and no
\* string has no strip: AttributeError, answered 500
Normalized(v) ==
  IF ~Truthy(v) THEN [raises |-> FALSE, s |-> <<>>]
  ELSE IF v.t # "str" THEN [raises |-> TRUE, s |-> <<>>]
  ELSE [raises |-> FALSE, s |-> Lower(Strip(v.s))]
\* (payload.get(key) or "").strip()
Stripped(v) ==
  IF ~Truthy(v) THEN [raises |-> FALSE, s |-> <<>>]
  ELSE IF v.t # "str" THEN [raises |-> TRUE, s |-> <<>>]
  ELSE [raises |-> FALSE, s |-> Strip(v.s)]
\* payload.get(key) or ""
OrEmpty(v) == IF Truthy(v) THEN v.s ELSE <<>>

E_a == <<"a","@","x">>
E_A_padded == <<" ","A","@","x"," ">>
E_b == <<"b","@","x">>
P_old == <<"p">>
P_new == <<"n">>
T_0 == <<"t","0">>

\* what has happened so far
History(resetIssued, pwChanged, deleted, saved) ==
  [resetIssued |-> resetIssued, pwChanged |-> pwChanged, deleted |-> deleted,
   saved |-> saved]

C_1 == ChatItem(TRUE, "c1", TRUE, <<"hello">>)
C_2 == ChatItem(TRUE, "c2", TRUE, <<"a", "b">>)
C_empty == ChatItem(TRUE, "c3", TRUE, <<>>)
C_noMessages == ChatItem(TRUE, "c4", FALSE, <<>>)
C_string == ChatItem(FALSE, "c5", FALSE, <<>>)

\* a database: empty, or with two accounts that have saved chats, the first
\* of them with or without a reset token issued at time 0
U_1 == UserDoc(1, E_a, <<"u">>, _hash_password(P_old), FALSE, <<>>, 0)
U_1_reset == UserDoc(1, E_a, <<"u">>, _hash_password(P_old), TRUE, T_0, ResetTtl)
U_2 == UserDoc(2, E_b, <<"v">>, _hash_password(P_old), FALSE, <<>>, 0)
Populated(first, issued) ==
  /\ users = {first, U_2}
  /\ chatDocs = {ChatDoc(3, IdStr(1), <<C_1>>), ChatDoc(4, IdStr(2), <<C_2>>)}
  /\ nextId = 5
  /\ jwtIssued = {_issue_jwt(IdStr(1), 0), Jwt(IdStr(1), 0, TRUE)}
  /\ history = History(issued, {}, {},
                       {[userId |-> IdStr(1), chats |-> <<C_1>>],
                        [userId |-> IdStr(2), chats |-> <<C_2>>]})
EmptyDb ==
  /\ users = {}
  /\ chatDocs = {}
  /\ nextId = 1
  /\ jwtIssued = {}
  /\ history = History({}, {}, {}, {})

AuthIdle ==
  /\ dbConfigured = FALSE
  /\ EmptyDb
  /\ nextToken = 1
  /\ now = 0
  /\ calls = [i \in 1..MaxCalls |-> NoRequest]

AuthInit ==
  /\ dbConfigured \in BOOLEAN
  /\ \/ EmptyDb
     \/ dbConfigured /\ Populated(U_1, {})
     \/ dbConfigured /\ Populated(U_1_reset, {[token |-> T_0, user |-> 1]})
  /\ nextToken = 1
  /\ now = 0
  /\ calls = [i \in 1..MaxCalls |-> NoRequest]

\* the request a handler starts on, and its answers
FreeSlot(i) ==
  /\ calls[i].op = "none"
  /\ \A j \in 1..(i - 1) : calls[j].op # "none"
Fail(c, status, detail) ==
  [c EXCEPT !.at = "done", !.status = status, !.detail = detail]
Return(c, body) == [c EXCEPT !.at = "done", !.status = 200, !.body = body]
At(c, at) == [c EXCEPT !.at = at]

\* time passes: the clock is read before the hour a reset token lives, and
\* once it is over
Tick ==
  /\ UNCHANGED <<wsVars, httpVars>>
  /\ now = 0
  /\ now' = ResetTtl
  /\ UNCHANGED <<dbConfigured, users, chatDocs, nextId, nextToken, calls,
                 jwtIssued, history>>

SignupInputs ==
  { <<SStr(E_a), SStr(<<"u">>), SStr(P_old)>>,
    <<SStr(E_A_padded), SStr(<<"w">>), SStr(P_new)>>,
    <<SAbsent, SStr(<<"u">>), SStr(P_old)>> }

\* lines 345-354 of auth_signup: the checks and users_col.find_one
auth_signup ==
  /\ UNCHANGED <<wsVars, httpVars>>
  /\ \E i \in 1..MaxCalls, input \in SignupInputs :
       /\ FreeSlot(i)
       /\ LET c == [NoRequest EXCEPT !.op = "auth_signup", !.email = input[1],
                      !.username = input[2], !.password = input[3]]
              email == Normalized(c.email)
              username == Stripped(c.username)
              password == OrEmpty(c.password)
          IN  calls' = [calls EXCEPT ![i] =
                IF ~dbConfigured THEN Fail(c, 500, "Database not configured")
                ELSE IF email.raises \/ username.raises
                  THEN Fail(c, 500, "Internal Server Error")
                ELSE IF email.s = <<>> \/ password = <<>> \/ username.s = <<>>
                  THEN Fail(c, 400, "Missing fields")
                ELSE IF FindByEmail(users, email.s) # NoDoc
                  THEN Fail(c, 409, "Email already registered")
                ELSE At(c, "insert")]
  /\ UNCHANGED <<dbConfigured, users, chatDocs, nextId, nextToken, now,
                 jwtIssued, history>>

\* lines 355-360 of auth_signup: users_col.insert_one and the answer
auth_signup_insert ==
  /\ UNCHANGED <<wsVars, httpVars>>
  /\ \E i \in 1..MaxCalls :
       /\ calls[i].op = "auth_signup" /\ calls[i].at = "insert"
       /\ LET c == calls[i]
              doc == UserDoc(nextId, Normalized(c.email).s, Stripped(c.username).s,
                             _hash_password(OrEmpty(c.password)), FALSE, <<>>, 0)
              token == _issue_jwt(IdStr(doc.id), now)
          IN  /\ users' = users \cup {doc}
              /\ nextId' = nextId + 1
              /\ jwtIssued' = jwtIssued \cup {token}
              /\ calls' = [calls EXCEPT ![i] = Return(c, Body(TRUE, token, <<>>))]
  /\ UNCHANGED <<dbConfigured, chatDocs, nextToken, now, history>>

SigninInputs ==
  { <<SStr(E_a), SStr(P_old)>>, <<SStr(E_A_padded), SStr(P_new)>>,
    <<SStr(E_a), SAbsent>> }

\* auth_signin, lines 365-376
auth_signin ==
  /\ UNCHANGED <<wsVars, httpVars>>
  /\ \E i \in 1..MaxCalls, input \in SigninInputs :
       /\ FreeSlot(i)
       /\ LET c == [NoRequest EXCEPT !.op = "auth_signin", !.email = input[1],
                      !.password = input[2]]
              email == Normalized(c.email)
              password == OrEmpty(c.password)
              user == FindByEmail(users, email.s)
              token == _issue_jwt(IdStr(user.id), now)
          IN  IF ~dbConfigured
                THEN /\ calls' = [calls EXCEPT ![i] =
                                    Fail(c, 500, "Database not configured")]
                     /\ UNCHANGED jwtIssued
              ELSE IF email.s = <<>> \/ password = <<>>
                THEN /\ calls' = [calls EXCEPT ![i] = Fail(c, 400, "Missing fields")]
                     /\ UNCHANGED jwtIssued
              ELSE IF user = NoDoc \/ ~_verify_password(password, user.password)
                THEN /\ calls' = [calls EXCEPT ![i] =
                                    Fail(c, 401, "Invalid credentials")]
                     /\ UNCHANGED jwtIssued
              ELSE /\ calls' = [calls EXCEPT ![i] =
                                  Return([c EXCEPT !.user = user],
                                         Body(TRUE, token, <<>>))]
                   /\ jwtIssued' = jwtIssued \cup {token}
  /\ UNCHANGED <<dbConfigured, users, chatDocs, nextId, nextToken, now,
                 history>>

\* secrets.token_urlsafe(32): a value never handed out before
FreshToken(n) == <<"t", Digits[n + 1]>>

\* an answer that tells whether the account exists and the mail went out
ForgotBody_Reveal(found, mailed) == Body(found /\ mailed, NoJwt, <<>>)
\* line 410: the answer of auth_forgot, whatever was found and sent
ForgotBody(found, mailed) == Body(TRUE, NoJwt, <<>>)

ForgotInputs ==
  {SStr(E_A_padded), SStr(<<"c","@","x">>), SAbsent, SStr(<<" ">>)}

\* lines 382-391 of auth_forgot: the checks, users_col.find_one, the token
auth_forgot ==
  /\ UNCHANGED <<wsVars, httpVars>>
  /\ \E i \in 1..MaxCalls, input \in ForgotInputs :
       /\ FreeSlot(i)
       /\ LET c == [NoRequest EXCEPT !.op = "auth_forgot", !.email = input]
              email == Normalized(c.email)
              user == FindByEmail(users, email.s)
              token == FreshToken(nextToken)
          IN  IF ~dbConfigured \/ email.raises \/ email.s = <<>> \/ user = NoDoc
                THEN /\ calls' = [calls EXCEPT ![i] =
                          IF ~dbConfigured
                            THEN Fail(c, 500, "Database not configured")
                          ELSE IF email.raises
                            THEN Fail(c, 500, "Internal Server Error")
                          ELSE IF email.s = <<>>
                            THEN Fail(c, 400, "Missing email")
                          ELSE Return(c, ForgotBody(FALSE, FALSE))]
                     /\ UNCHANGED <<nextToken, history>>
                ELSE /\ calls' = [calls EXCEPT ![i] =
                          [c EXCEPT !.at = "update", !.user = user,
                                    !.newToken = token,
                                    !.expires = now + ResetTtl]]
                     /\ nextToken' = nextToken + 1
                     /\ history' = [history EXCEPT !.resetIssued =
                                      @ \cup {[token |-> token, user |-> user.id]}]
  /\ UNCHANGED <<dbConfigured, users, chatDocs, nextId, now, jwtIssued>>

\* lines 392-410 of auth_forgot: users_col.update_one by _id, _send_email
\* (True, or False when SMTP is not configured or fails), the answer
auth_forgot_update ==
  /\ UNCHANGED <<wsVars, httpVars>>
  /\ \E i \in 1..MaxCalls, mailed \in BOOLEAN :
       /\ calls[i].op = "auth_forgot" /\ calls[i].at = "update"
       /\ LET c == calls[i] IN
          /\ users' = {IF d.id = c.user.id
                         THEN [d EXCEPT !.hasReset = TRUE,
                                        !.resetToken = c.newToken,
                                        !.resetTokenExp = c.expires]
                         ELSE d : d \in users}
          /\ calls' = [calls EXCEPT ![i] =
                         Return([c EXCEPT !.mailed = mailed],
                                ForgotBody(TRUE, mailed))]
  /\ UNCHANGED <<dbConfigured, chatDocs, nextId, nextToken, now,
                 jwtIssued, history>>

\* the tokens a client can submit: none, null, an unknown one, and the ones
\* issued
ResetInputs ==
  { <<SAbsent, SStr(P_new)>>, <<SNull, SStr(P_new)>>,
    <<SStr(<<"z">>), SStr(P_new)>> }
    \cup { <<SStr(r.token), SStr(p)>> :
             r \in history.resetIssued, p \in {P_new, P_old} }

\* lines 415-431 of auth_reset: the checks, users_col.find_one by token, the
\* expiry test
auth_reset ==
  /\ UNCHANGED <<wsVars, httpVars>>
  /\ \E i \in 1..MaxCalls, input \in ResetInputs :
       /\ FreeSlot(i)
       /\ LET c == [NoRequest EXCEPT !.op = "auth_reset", !.token = input[1],
                      !.password = input[2]]
              token == Stripped(c.token)
              new_password == OrEmpty(c.password)
              user == FindByResetToken(users, token.s)
              exp == IF user.hasReset THEN user.resetTokenExp ELSE 0
          IN  calls' = [calls EXCEPT ![i] =
                \* line 415: payload.get('token', '')[:10] of a null token
                IF c.token.t \in {"null", "num"}
                  THEN Fail(c, 500, "Internal Server Error")
                ELSE IF ~dbConfigured THEN Fail(c, 500, "Database not configured")
                ELSE IF token.s = <<>> \/ new_password = <<>>
                  THEN Fail(c, 400, "Missing token or password")
                ELSE IF user = NoDoc THEN Fail(c, 400, "Invalid token")
                ELSE IF exp <= now THEN Fail(c, 400, "Token expired")
                ELSE [c EXCEPT !.at = "update", !.user = user]]
  /\ UNCHANGED <<dbConfigured, users, chatDocs, nextId, nextToken, now,
                 jwtIssued, history>>

\* lines 432-445 of auth_reset: users_col.update_one by _id, the answer
auth_reset_update ==
  /\ UNCHANGED <<wsVars, httpVars>>
  /\ \E i \in 1..MaxCalls :
       /\ calls[i].op = "auth_reset" /\ calls[i].at = "update"
       /\ LET c == calls[i]
              matched == \E d \in users : d.id = c.user.id
          IN
          /\ users' = {IF d.id = c.user.id
                         THEN [d EXCEPT !.password = _hash_password(OrEmpty(c.password)),
                                        !.hasReset = FALSE,
                                        !.resetToken = <<>>,
                                        !.resetTokenExp = 0]
                         ELSE d : d \in users}
          /\ history' = [history EXCEPT !.pwChanged =
                           IF matched
                             THEN @ \cup {[token |-> Stripped(c.token).s,
                                           user |-> c.user.id, call |-> i]}
                             ELSE @]
          /\ calls' = [calls EXCEPT ![i] = Return(c, Body(TRUE, NoJwt, <<>>))]
  /\ UNCHANGED <<dbConfigured, chatDocs, nextId, nextToken, now,
                 jwtIssued>>

\* the Authorization headers a client can send
AuthHeaders ==
  {NoHeader} \cup {Bearer(t) : t \in jwtIssued}

\* lines 450-458, 469-477 and 488-495: the checks the three handlers share
Denied(c) ==
  IF ~dbConfigured THEN Fail(c, 500, "Database not configured")
  ELSE IF ~IsBearer(c.authorization) THEN Fail(c, 401, "Missing token")
  ELSE IF ~_decode_jwt(c.authorization.token, now).ok
    THEN Fail(c, 401, "Invalid token")
  ELSE c

\* lines 450-460 of auth_delete: the checks, then a delete_one whose filter
\* takes the truth value of the default database: it raises or matches
\* nothing, by the MongoDB URL and driver in use
auth_delete ==
  /\ UNCHANGED <<wsVars, httpVars>>
  /\ \E i \in 1..MaxCalls, authorization \in AuthHeaders, raises \in BOOLEAN :
       /\ FreeSlot(i)
       /\ LET c == [NoRequest EXCEPT !.op = "auth_delete",
                      !.authorization = authorization]
          IN  calls' = [calls EXCEPT ![i] =
                IF Denied(c) # c THEN Denied(c)
                ELSE IF raises THEN Fail(c, 500, "Internal Server Error")
                ELSE At(c, "delete_user")]
  /\ UNCHANGED <<dbConfigured, users, chatDocs, nextId, nextToken, now,
                 jwtIssued, history>>

\* lines 461-465 of auth_delete: users_col.delete_one by _id
auth_delete_user ==
  /\ UNCHANGED <<wsVars, httpVars>>
  /\ \E i \in 1..MaxCalls :
       /\ calls[i].op = "auth_delete" /\ calls[i].at = "delete_user"
       /\ LET user_id == calls[i].authorization.token.sub IN
          users' = {d \in users : d.id # ObjectId(user_id)}
       /\ calls' = [calls EXCEPT ![i] = At(calls[i], "delete_chats")]
  /\ UNCHANGED <<dbConfigured, chatDocs, nextId, nextToken, now,
                 jwtIssued, history>>

\* lines 466-467 of auth_delete: chats_col.delete_many, the answer
auth_delete_chats ==
  /\ UNCHANGED <<wsVars, httpVars>>
  /\ \E i \in 1..MaxCalls :
       /\ calls[i].op = "auth_delete" /\ calls[i].at = "delete_chats"
       /\ LET user_id == calls[i].authorization.token.sub IN
          /\ chatDocs' = {d \in chatDocs : d.userId # user_id}
          /\ history' = [history EXCEPT !.deleted = @ \cup {user_id}]
       /\ calls' = [calls EXCEPT ![i] = Return(calls[i], Body(TRUE, NoJwt, <<>>))]
  /\ UNCHANGED <<dbConfigured, users, nextId, nextToken, now, jwtIssued>>

\* list_chats, lines 471-483
list_chats ==
  /\ UNCHANGED <<wsVars, httpVars>>
  /\ \E i \in 1..MaxCalls, authorization \in AuthHeaders :
       /\ FreeSlot(i)
       /\ LET c == [NoRequest EXCEPT !.op = "list_chats",
                      !.authorization = authorization]
              doc == FirstChatDoc(chatDocs, c.authorization.token.sub)
          IN  calls' = [calls EXCEPT ![i] =
                IF Denied(c) # c THEN Denied(c)
                ELSE Return(c, Body(TRUE, NoJwt, doc.chats))]
  /\ UNCHANGED <<dbConfigured, users, chatDocs, nextId, nextToken, now,
                 jwtIssued, history>>

SavePayloads ==
  { ChatsValue(FALSE, <<>>),
    ChatsValue(TRUE, <<C_1, C_empty, C_2>>),
    ChatsValue(TRUE, <<C_2, C_string, C_noMessages, C_1>>) }

\* save_chats, lines 488-510
save_chats ==
  /\ UNCHANGED <<wsVars, httpVars>>
  /\ \E i \in 1..MaxCalls, authorization \in AuthHeaders, chats \in SavePayloads :
       /\ FreeSlot(i)
       /\ LET c == [NoRequest EXCEPT !.op = "save_chats",
                      !.authorization = authorization, !.chats = chats]
              user_id == c.authorization.token.sub
          IN  IF Denied(c) # c \/ ~chats.isList
                THEN /\ calls' = [calls EXCEPT ![i] =
                          IF Denied(c) # c THEN Denied(c)
                          ELSE Fail(c, 400, "Invalid body")]
                     /\ UNCHANGED <<chatDocs, nextId, history>>
                ELSE /\ chatDocs' = UpsertChats(chatDocs, nextId, user_id,
                                                filtered_chats(chats.items))
                     /\ nextId' = IF FirstChatDoc(chatDocs, user_id) = NoChatDoc
                                    THEN nextId + 1 ELSE nextId
                     /\ history' = [history EXCEPT !.saved =
                                      {s \in @ : s.userId # user_id}
                                        \cup {[userId |-> user_id,
                                               chats |-> chats.items]}]
                     /\ calls' = [calls EXCEPT ![i] =
                                    Return(c, Body(TRUE, NoJwt, <<>>))]
  /\ UNCHANGED <<dbConfigured, users, nextToken, now, jwtIssued>>

vars == <<wsVars, httpVars, authVars>>

Init == WsInit /\ HttpInit /\ AuthIdle

NextHttp ==
  \/ chat_query
  \/ chat_post

SpecHttp == Init /\ [][NextHttp]_vars

Next ==
  \/ WsReceive
  \/ WsReceiveClosed
  \/ GenStart
  \/ GenNext
  \/ WsSend
  \/ WsSendEnd
  \/ WsSendError
  \/ WsClose
  \/ ClientClose

Spec == Init /\ [][Next]_vars

\* both modes: the websocket handler (backend/app.py) and the HTTP endpoints
\* (api/chat.py) share no state, so a behaviour runs one connection or
\* handles one request
HttpIdle == httpReq.endpoint = "none"
WsIdle == pc = "receive" /\ served = 0 /\ conn = "open"
NextModes ==
  \/ HttpIdle /\ WsReceive
  \/ HttpIdle /\ WsReceiveClosed
  \/ HttpIdle /\ GenStart
  \/ HttpIdle /\ GenNext
  \/ HttpIdle /\ WsSend
  \/ HttpIdle /\ WsSendEnd
  \/ HttpIdle /\ WsSendError
  \/ HttpIdle /\ WsClose
  \/ HttpIdle /\ ClientClose
  \/ WsIdle /\ chat_query
  \/ WsIdle /\ chat_post

SpecModes == Init /\ [][NextModes]_vars

(* ------------------------------ claims -------------------------------- *)
IsPrefix(a, b) == Len(a) <= Len(b) /\ SubSeq(b, 1, Len(a)) = a
ErrorFragments == {"Error: " \o e : e \in BackendErrors}
Last(q) == q[Len(q)]

\* C1: for a query handled without failure the messages sent are exactly the
\* fragments process_query_streaming produced, in production order, none
\* dropped, duplicated or reordered, followed by exactly one "[END]".
C1_FragmentsThenEnd ==
  /\ (pc = "receive" /\ served > 0) => sent = produced \o <<EndMarker>>
  /\ pc \in {"gen_next", "send_end"} => sent = produced
  /\ pc = "send" => produced = Append(sent, pending)

C1_Witness ==
  /\ pc = "receive"
  /\ produced = <<"Hel", "lo">>
  /\ sent = <<"Hel", "lo", "[END]">>

\* C2: every call of process_query_streaming yields at least one fragment
\* before it ends, also when the backend's stream ends without a chunk.
C2_AtLeastOneFragment == gen = "exhausted" => Len(produced) >= 1

\* C3: when the backend fails before any fragment was produced, the generator
\* yields exactly one fragment, the error message, and then ends.
C3_FailureBeforeFirstFragment ==
  (backendFailed /\ chunksOut = 0) =>
    /\ Len(produced) = 1
    /\ produced[1] \in ErrorFragments
    /\ gen \in {"errored", "exhausted"}
    /\ pc \in {"send_end", "receive"} => gen = "exhausted"

C3_Witness ==
  /\ backendFailed /\ chunksOut = 0
  /\ gen = "exhausted"
  /\ produced = <<"Error: 503 backend unavailable">>

\* C4 as claimed: after a backend failure in the middle of a stream the
\* client gets no "[END]" and the handler reads no further query.
C4_MidStreamFailureTerminates ==
  (backendFailed /\ chunksOut >= 1) =>
    /\ \A i \in 1..Len(sent) : sent[i] # EndMarker
    /\ pc # "receive"

\* C4 as amended: after a backend failure in the middle of a stream the
\* generator yields one error fragment after the fragments of the chunks and
\* ends normally; the handler does not enter its error path for it, sends
\* "[END]" after the error fragment and goes back to reading, the connection
\* not closed by the server.
C4_MidStreamFailureThenEnd ==
  (backendFailed /\ chunksOut >= 1) =>
    /\ Len(produced) = chunksOut + 1
    /\ Last(produced) \in ErrorFragments
    /\ \A i \in 1..chunksOut : produced[i] \notin ErrorFragments
    /\ failedAt = "none" =>
         /\ pc \in {"send", "gen_next", "send_end", "receive"}
         /\ ~closeCalled /\ conn # "serverClosed"
    /\ pc = "receive" => sent = produced \o <<EndMarker>>

C4_Witness ==
  /\ backendFailed /\ chunksOut = 1
  /\ pc = "receive" /\ conn = "open" /\ ~closeCalled
  /\ sent = <<"Hel", "Error: 503 backend unavailable", "[END]">>

StreamingFailure == failedAt \in {"stream", "send", "send_end"}

\* C5 as claimed: after any uncaught failure while streaming the server has
\* sent exactly one "Error: ..." message instead of "[END]" and closed.
C5_FailureSendsErrorAndCloses ==
  (pc = "done" /\ StreamingFailure) =>
    /\ sent # <<>>
    /\ Last(sent) = "Error: " \o wsErr
    /\ closeCalled

\* C5 as amended: after an uncaught failure while streaming, if the client
\* was still connected when the handler reported it, the server has sent the
\* fragments delivered so far, then exactly one "Error: <description>"
\* message and no "[END]", and has called close; if the client had closed
\* (a failed send is such a failure) nothing more was sent and close was not
\* reached. Either way the handler has ended: nothing further is received
\* or sent on the connection.
C5_FailureEndsConnection ==
  /\ closeCalled => pc = "done"
  /\ (pc \in {"close", "done"} /\ StreamingFailure) =>
       /\ \A i \in 1..Len(sent) : sent[i] # EndMarker
       /\ IF pc = "close" \/ closeCalled
            THEN /\ sent # <<>>
                 /\ Last(sent) = "Error: " \o wsErr
                 /\ IsPrefix(SubSeq(sent, 1, Len(sent) - 1), produced)
            ELSE /\ conn = "clientClosed"
                 /\ IsPrefix(sent, produced)
       /\ pc = "done" => (conn # "open" /\ ~ENABLED Next)

C5_Witness ==
  /\ pc = "done" /\ failedAt = "stream" /\ closeCalled
  /\ conn = "serverClosed"
  /\ sent = <<"Error: 'NoneType' object has no attribute 'lower'">>

PromptMissingOrEmpty(req) ==
  IF req.endpoint = "chat_query"
    THEN req.q.t = "absent" \/ req.q.s = <<>>
    ELSE req.prompt.t \in {"absent", "null"} \/ req.prompt = SStr(<<>>)

\* C7 as claimed: a request with a missing or empty prompt gets 400 and
\* process_query_non_streaming is not called; a request with a present
\* prompt gets {response: <string>}.
C7_MissingPromptRejected ==
  httpReq.endpoint # "none" =>
    IF PromptMissingOrEmpty(httpReq)
      THEN httpResp.status = 400 /\ ~nsCalled
      ELSE httpResp.status = 200

\* the request carries a usable prompt: chat_query a non-empty q; chat_post
\* a string with a character that is not white space, under prompt or, when
\* prompt is missing or empty, under its alias query
UsablePrompt(req) ==
  IF req.endpoint = "chat_query"
    THEN req.q.t = "str" /\ req.q.s # <<>>
    ELSE LET e == IF Truthy(req.prompt) THEN req.prompt ELSE req.queryField
         IN  e.t = "str" /\ \E i \in 1..Len(e.s) : e.s[i] \notin Whitespace

\* C7 as amended: a request without a usable prompt gets 400 and
\* process_query_non_streaming is not called for it; every other request
\* gets 200 with a non-empty response string.
C7_UsablePromptDecides ==
  httpReq.endpoint # "none" =>
    IF UsablePrompt(httpReq)
      THEN httpResp.status = 200 /\ nsCalled /\ httpResp.response # ""
      ELSE httpResp.status = 400 /\ ~nsCalled /\ httpResp.response = ""

C7_Witness ==
  /\ httpReq.endpoint = "chat_post"
  /\ httpReq.prompt = SStr(<<" ", "\n">>)
  /\ httpResp.status = 400 /\ ~nsCalled

\* C8: a query message with an empty prompt is rejected before the pipeline:
\* classifier, search, assembly and generation are not invoked for it.
C8_EmptyPromptRejected == query = SStr(<<>>) => invoked = {}

\* C9: process_query_non_streaming returns a non-empty string and lets no
\* generation failure reach the caller: the backend's text, the fixed
\* "Sorry, ..." string when the backend gives no text, an error-prefixed
\* message when the backend raises.
C9_NonStreamingAlwaysText ==
  nsCalled =>
    /\ httpResp.status = 200
    /\ httpResp.response # ""
    /\ httpResp.response =
         CASE nsOutcome.kind = "raise" ->
                "Error processing query: " \o nsOutcome.text
           [] nsOutcome.kind = "text" /\ nsOutcome.text # "" -> nsOutcome.text
           [] OTHER -> "Sorry, I couldn't generate a response. Please try again."

C9_Witness ==
  /\ nsCalled /\ nsOutcome = Outcome("text", "")
  /\ httpResp.response = "Sorry, I couldn't generate a response. Please try again."

\* the attachment is a well-formed data-URI attachment
WellFormedAttachment(a) ==
  /\ a.t = "obj"
  /\ Truthy(a.data) /\ Truthy(a.mime)
  /\ a.data.t = "str"
  /\ StartsWith(a.data.s, DataPrefix)
  /\ Contains(a.data.s, Base64Marker)
  /\ b64decode(AfterFirstComma(a.data.s)).ok

\* C10: with an attachment value that is not a well-formed data-URI
\* attachment the request does not fail in content assembly and the content
\* is exactly the content assembled with no attachment.
C10_MalformedAttachmentDegrades ==
  (invoked # {} /\ query.t = "str" /\ ~WellFormedAttachment(attachment)) =>
    /\ failedAt # "stream"
    /\ \E ocr \in OcrEnvs, search \in SearchEnvs :
         parts = StreamingContent(query.s, AAbsent, ocr, search).parts

\* C11: when an augmentation stage called for a request is absent or fails
\* (search not configured or raising, OCR libraries missing or raising), the
\* request is not rejected in either mode: the generation backend is still
\* called, a stream that runs to its end is the fragments followed by
\* "[END]", and the HTTP caller gets status 200 with a response text.
Degraded(ocr, search) ==
  \/ search.called /\ (~search.env.configured \/ search.env.raises)
  \/ ocr.called /\ (~ocr.env.tesseract \/ ocr.env.raises)
C11_AugmentationFailureDegrades ==
  /\ Degraded(ocrCall, searchCall) =>
       /\ failedAt # "stream"
       /\ gen # "none" /\ Len(parts) >= 2
       /\ pc = "receive" => sent = Append(produced, EndMarker)
  /\ Degraded(nsOcrCall, nsSearchCall) =>
       /\ httpResp.status = 200
       /\ httpResp.response # ""
       /\ Len(nsParts) >= 2
C11_Witness ==
  /\ pc = "receive" /\ served = 1 /\ failedAt = "none"
  /\ searchCall.called /\ searchCall.env.configured /\ searchCall.env.raises
  /\ ocrCall.called /\ ~ocrCall.env.tesseract
  /\ Len(sent) = 3 /\ Last(sent) = EndMarker

\* C12: in both modes, whatever the attachment and the search augmentation,
\* the content given to the generation backend starts with the system
\* instruction part, followed by the part carrying the user's query.
PrefixOf(content, q) ==
  /\ Len(content) >= 2
  /\ content[1].kind = "system" /\ content[1].body = <<SystemInstruction>>
  /\ content[2].kind = "query" /\ content[2].body = <<"User query: ">> \o q
  /\ \A i \in 3..Len(content) : content[i].kind \notin {"system", "query"}
C12_SystemThenQueryFirst ==
  /\ gen # "none" => PrefixOf(parts, query.s)
  /\ httpResp.status = 200 => PrefixOf(nsParts, nsQuery)
C12_Witness ==
  /\ gen # "none" /\ ocrCall.called /\ searchCall.called
  /\ Len(parts) = 7 /\ parts[3].kind = "inline" /\ parts[7].kind = "search"

\* the attachment of the query decoded, and OCR produced non-empty text for it
Decoded == WellFormedAttachment(attachment)
DecodedBytes == b64decode(AfterFirstComma(attachment.data.s)).data
OcrProduced ==
  /\ Decoded /\ ocrCall.called
  /\ LET r == _try_ocr_bytes(DecodedBytes, attachment.mime, ocrCall.env)
     IN  r.some /\ r.text # <<>>
Kinds(content) == [i \in 1..Len(content) |-> content[i].kind]
When(cond, kinds) == IF cond THEN kinds ELSE <<>>

\* C13: after the two-part prefix the content holds, in this order and
\* nothing else: the inline-binary part iff the attachment decoded; the OCR
\* prefix part, the OCR text part and the "consider the attachment" part iff
\* OCR produced non-empty text; the search part iff search was requested.
C13_PartsAsStated ==
  gen # "none" =>
    Kinds(parts) = <<"system", "query">>
                     \o When(Decoded, <<"inline">>)
                     \o When(OcrProduced, <<"ocr_prefix", "ocr_text", "consider">>)
                     \o When(needs_search(query.s), <<"search">>)

\* C13, amended: the "consider the attachment" part follows whenever the
\* attachment decoded, with or without OCR text; the inline part carries the
\* decoded bytes under the attachment's mime type.
C13_ConsiderWheneverDecoded ==
  gen # "none" =>
    /\ Kinds(parts) = <<"system", "query">>
                        \o When(Decoded, <<"inline">>)
                        \o When(OcrProduced, <<"ocr_prefix", "ocr_text">>)
                        \o When(Decoded, <<"consider">>)
                        \o When(needs_search(query.s), <<"search">>)
    /\ Decoded => parts[3].body = DecodedBytes /\ parts[3].mime = attachment.mime
C13_Witness ==
  /\ gen # "none" /\ Decoded /\ ~OcrProduced /\ ocrCall.called
  /\ Kinds(parts) = <<"system", "query", "inline", "consider">>

\* the text the search part is to carry for one answer of the provider: the
\* results in rank order as title/snippet/source blocks, or a fixed sentence
RECURSIVE Blocks(_, _)
Blocks(items, rank) ==
  IF items = <<>> THEN ""
  ELSE "**Result " \o Digits[rank + 1] \o "**:\n- **Title**: "
         \o (IF items[1].hasTitle THEN items[1].title ELSE "Untitled")
         \o "\n- **Snippet**: " \o items[1].snippet
         \o "\n- **Source**: [" \o items[1].link \o "](" \o items[1].link \o ")\n"
         \o (IF Len(items) > 1 THEN "\n" ELSE "")
         \o Blocks(Tail(items), rank + 1)
ResultsText(env) ==
  IF ~env.configured THEN "Search unavailable: Google CSE is not configured."
  ELSE IF env.raises THEN "Search unavailable due to an error."
  ELSE IF env.items = <<>> THEN "No results found."
  ELSE Blocks(env.items, 1)
SearchPartsOf(content) == {i \in 1..Len(content) : content[i].kind = "search"}

\* C14: the search provider is called and a search part appended iff the
\* classifier returns true; the search part is then the last part, carries
\* the results in rank order (or the "no results"/"unavailable" sentence,
\* never an empty text) and ends with the instruction to cite sources.
C14_SearchIffClassified ==
  (invoked # {} /\ query.t = "str") =>
    /\ searchCall.called <=> needs_search(query.s)
    /\ SearchPartsOf(parts) # {} <=> needs_search(query.s)
    /\ SearchPartsOf(parts) # {} =>
         /\ SearchPartsOf(parts) = {Len(parts)}
         /\ ResultsText(searchCall.env) # ""
         /\ Last(parts).body =
              << "\n\nSearch results:\n" \o ResultsText(searchCall.env)
                 \o "\n\nProvide the answer now and include citations as [source: url] where relevant." >>

\* C15: process_query_streaming yields one fragment per chunk of the backend,
\* in the backend's order: the chunk's text when it has one, else the fixed
\* fallback text; a chunk without text is not skipped and does not end the
\* stream.
ExpectedFragment(chunk) ==
  IF chunk.has /\ chunk.text # "" THEN chunk.text
  ELSE "Sorry, I couldn't generate a response chunk. Please try again."
C15_OneFragmentPerChunk ==
  /\ Len(produced) = Len(chunksSeen) + (IF backendFailed THEN 1 ELSE 0)
  /\ \A i \in 1..Len(chunksSeen) : produced[i] = ExpectedFragment(chunksSeen[i])
  /\ (chunksSeen # <<>> /\ ~backendFailed /\ pc \in {"send", "gen_next"})
       => gen = "running"
C15_Witness ==
  /\ pc = "receive" /\ served = 1
  /\ chunksSeen = <<Chunk(FALSE, ""), Chunk(TRUE, "lo")>>
  /\ sent = << "Sorry, I couldn't generate a response chunk. Please try again.",
               "lo", "[END]" >>

\* C16: the handler asks the generator for a fragment only when every
\* fragment produced so far has been sent, so at most one produced fragment
\* is unsent at any time; only the handler's loop asks the generator.
C16_PullOneAtATime ==
  [][ /\ genRequests' = genRequests + 1 =>
           /\ pc \in {"gen_start", "gen_next"}
           /\ sent = produced
      /\ Len(produced') <= Len(sent') + 1 ]_vars
C16_Witness ==
  /\ pc = "send" /\ conn = "open" /\ genRequests = 2
  /\ Len(produced) = 2 /\ sent = <<produced[1]>> /\ pending = produced[2]

\* the attachment a submission with the fields image and attachment stands for
IsDataUri(v) == v.t = "str" /\ StartsWith(v.s, <<"d","a","t","a",":">>)
LegacyMapped(image, att, handled) ==
  /\ (att.t = "absent" /\ IsDataUri(image)) =>
       handled = AObj(image, SStr(<<"i","m","a","g","e","/","*">>))
  /\ att.t # "absent" => handled = att

\* C17: on every query submission, over HTTP or the websocket, an image
\* field holding a data URI is handled as the attachment {data: image,
\* mime: "image/*"} when the attachment field is absent, and an attachment
\* field that is present is the one handled, the image field being ignored.
C17_LegacyImageMapped ==
  /\ (served > 0 /\ raw.kind = "object") =>
       LegacyMapped(raw.image, raw.attachment, attachment)
  /\ (httpReq.endpoint = "chat_post" /\ nsCalled /\ httpReq.attachment.t \in {"absent", "obj"}) =>
       LegacyMapped(httpReq.image, httpReq.attachment, nsAttachment)

\* the queries of the model that hold one of the phrases "what is", "latest",
\* "news", "find", "search" in some letter case
AsksForSearch(q) == q \in {Q_find, Q_find_lower}
ModelQueries == {Q_hi, Q_find, Q_find_lower, Q_whatis, <<>>, <<"5">>, <<" ">>,
                 <<"{", "}">>, <<" ", "\n">>}

\* C18: a query needs search iff its lower-cased text contains one of the
\* five phrases, so two queries differing only in letter case are classified
\* alike, and the streaming and the non-streaming mode decide the same for
\* the same query.
C18_ClassifierCaseInsensitive ==
  /\ (gen # "none") =>
       /\ query.s \in ModelQueries
       /\ ("search" \in invoked) = AsksForSearch(query.s)
       /\ searchCall.called = AsksForSearch(query.s)
  /\ (httpResp.status = 200) =>
       /\ nsQuery \in ModelQueries
       /\ nsSearchCall.called = AsksForSearch(nsQuery)
C18_Witness ==
  /\ gen # "none" /\ query.s = Q_find /\ searchCall.called
  /\ "search" \in invoked /\ Last(parts).kind = "search"

\* the OCR text parts of the non-streaming call, and the text OCR returned
NsOcrTextParts == {i \in 1..Len(nsParts) : nsParts[i].kind = "ocr_text"}
NsOcrText ==
  _try_ocr_bytes(b64decode(AfterFirstComma(nsAttachment.data.s)).data,
                 nsAttachment.mime, nsOcrCall.env).text

\* C19: an OCR text longer than the limit of 8000 characters enters the
\* content as its first 8000 characters, a shorter one whole; no OCR text
\* part is longer than the limit.
C19_OcrTextTruncated ==
  \A i \in NsOcrTextParts :
    /\ Len(nsParts[i].body) <= OcrLimit
    /\ Len(NsOcrText) > OcrLimit =>
         /\ Len(nsParts[i].body) = OcrLimit
         /\ nsParts[i].body = SubSeq(NsOcrText, 1, OcrLimit)
    /\ Len(NsOcrText) <= OcrLimit => nsParts[i].body = NsOcrText
C19_Witness ==
  /\ NsOcrTextParts = {5}
  /\ Len(NsOcrText) = OcrLimit + 2
  /\ Len(nsParts[5].body) = OcrLimit
  /\ nsParts[5].body[OcrLimit] = "y" /\ nsParts[5].body[1] = "x"

\* C20: on a connection that has served n queries without a failure the
\* server has sent n "[END]" messages; the fragments of a query are sent
\* after the "[END]" of the query before it and before its own, and a query
\* is read only when the "[END]" of the one before it has been sent.
C20_OneEndPerQuery ==
  /\ served <= endsSent + 1
  /\ (failedAt = "none" /\ pc = "receive") =>
       /\ endsSent = served
       /\ served > 0 => sent = Append(produced, "[END]")
  /\ (failedAt = "none" /\ pc \in {"gen_start", "gen_next", "send", "send_end"}) =>
       /\ endsSent = served - 1
       /\ IsPrefix(sent, produced)
       /\ "[END]" \notin Range(sent)
C20_Witness ==
  /\ pc = "receive" /\ failedAt = "none" /\ conn = "open"
  /\ served = MaxQueries /\ endsSent = MaxQueries
  /\ Len(sent) = 3

NextAuth ==
  \/ Tick
  \/ auth_signup
  \/ auth_signup_insert
  \/ auth_signin
  \/ auth_forgot
  \/ auth_forgot_update
  \/ auth_reset
  \/ auth_reset_update
  \/ auth_delete
  \/ auth_delete_user
  \/ auth_delete_chats
  \/ list_chats
  \/ save_chats

InitAuth == WsInit /\ HttpInit /\ AuthInit

SpecAuth == InitAuth /\ [][NextAuth]_vars

(* ------------------------------ C23 ---------------------------------- *)
\* the sign-ups answered with a token
SignedUp(i) == calls[i].op = "auth_signup" /\ calls[i].status = 200

\* C23: whatever sign-ups were made, concurrent ones for the same email
\* included, the users collection holds at most one document per normalized
\* (trimmed, lower-cased) email, and at most one sign-up per normalized email
\* was answered with an account: every other one got 409.
C23_OneAccountPerEmail ==
  /\ \A d, e \in users : d.email = e.email => d.id = e.id
  /\ \A i, j \in 1..MaxCalls :
       SignedUp(i) /\ SignedUp(j)
         /\ Normalized(calls[i].email).s = Normalized(calls[j].email).s
       => i = j

(* ------------------------------ C21 ---------------------------------- *)
\* the entries of a submitted list that are objects with a non-empty
\* messages list, in the submitted order
RECURSIVE Kept(_)
Kept(items) ==
  IF items = <<>> THEN <<>>
  ELSE LET c == Head(items)
           keep == c.isDict /\ c.msgsIsList /\ c.msgs # <<>>
       IN  (IF keep THEN <<c>> ELSE <<>>) \o Kept(Tail(items))

\* what the last committed save of a user submitted
LastSaved(h, u) ==
  IF \E s \in h.saved : s.userId = u
    THEN (CHOOSE s \in h.saved : s.userId = u).chats
    ELSE <<>>

\* the request answered in this step
Answered(i) == calls[i].at # "done" /\ calls'[i].at = "done"
AnsweredOk(i, op) ==
  Answered(i) /\ calls'[i].op = op /\ calls'[i].status = 200
Caller(i) == calls'[i].authorization.token.sub

C22_TokenUsedOnce ==
  [][ /\ \A i \in 1..MaxCalls :
           calls[i].op = "none" /\ calls'[i].op = "auth_reset"
             /\ calls'[i].at = "update"
           => now < calls'[i].user.resetTokenExp
      /\ \A i \in 1..MaxCalls :
           AnsweredOk(i, "auth_reset") =>
             \A d \in users :
               d.id = calls[i].user.id =>
                 d.hasReset /\ d.resetToken = Stripped(calls[i].token).s
      /\ \A p, q \in history'.pwChanged : p.token = q.token => p = q
      /\ \A i \in 1..MaxCalls :
           Answered(i) /\ calls'[i].op = "auth_reset" /\ calls'[i].status # 200
             => users' = users
    ]_vars

(* ------------------------------ C24 ---------------------------------- *)
\* C24: once auth_delete has answered ok for a user, no users document and
\* no chats document of that user exists in any later state (identifiers are
\* never handed out twice, so a new sign-up is another user), and the steps
\* of the delete leave the documents of every other user as they were.
C24_DeletedStaysDeleted ==
  [][ /\ \A u \in history'.deleted :
           /\ \A d \in users' : d.id # ObjectId(u)
           /\ \A d \in chatDocs' : d.userId # u
      /\ \A i \in 1..MaxCalls :
           calls[i].op = "auth_delete" /\ calls'[i] # calls[i] =>
             LET u == calls[i].authorization.token.sub IN
             /\ {d \in users' : d.id # ObjectId(u)}
                  = {d \in users : d.id # ObjectId(u)}
             /\ {d \in chatDocs' : d.userId # u}
                  = {d \in chatDocs : d.userId # u}
    ]_vars

(* ------------------------------ C25 ---------------------------------- *)
\* the auth_forgot requests that were answered
ForgotAnswered(i) == calls[i].op = "auth_forgot" /\ calls[i].at = "done"
SameAnswer(i) ==
  /\ calls[i].status = 200
  /\ calls[i].detail = ""
  /\ calls[i].body = Body(TRUE, NoJwt, <<>>)

\* C25: with a configured database, every auth_forgot request whose email is
\* a non-empty string gets the same answer, {ok: true} with status 200,
\* whether the email is registered or not and whether the reset mail was
\* sent or not.
C25_SameAnswerNonEmpty ==
  \A i \in 1..MaxCalls :
    ForgotAnswered(i) /\ dbConfigured
      /\ calls[i].email.t = "str" /\ calls[i].email.s # <<>>
    => SameAnswer(i)

\* C25, amended: with a configured database, every auth_forgot request whose
\* email is a string that is non-empty after trimming gets the same answer,
\* {ok: true} with status 200, whether the email is registered or not and
\* whether the reset mail was sent or not; a missing or blank email is
\* answered 400 in both cases, so two runs that differ only in the existence
\* of the user answer alike.
C25_SameAnswerNonBlank ==
  \A i \in 1..MaxCalls :
    ForgotAnswered(i) /\ dbConfigured =>
      /\ calls[i].email.t = "str" /\ Strip(calls[i].email.s) # <<>>
           => SameAnswer(i)
      /\ calls[i].email.t \in {"absent", "null"}
           \/ (calls[i].email.t = "str" /\ Strip(calls[i].email.s) = <<>>)
           => /\ calls[i].status = 400
              /\ calls[i].detail = "Missing email"
              /\ calls[i].body = NoBody

\* two answered requests, one for a registered email whose mail was not
\* sent and one for an email nobody registered
C25_Witness ==
  \E i, j \in 1..MaxCalls :
    /\ ForgotAnswered(i) /\ ForgotAnswered(j) /\ dbConfigured
    /\ calls[i].email = SStr(E_A_padded) /\ calls[i].user # NoDoc
    /\ ~calls[i].mailed
    /\ \E d \in users : d.id = calls[i].user.id /\ d.resetToken = calls[i].newToken
    /\ calls[j].email = SStr(<<"c","@","x">>) /\ calls[j].user = NoDoc
    /\ calls[i].body = calls[j].body /\ calls[i].status = calls[j].status

====
